---- MODULE Spec2Model ----
(***************************************************************************)
(* A model of the hobsons schema registry: Registry, SchemaRepo and the    *)
(* filter pipeline (applyFilter, removeDefaultsAndOptionals).              *)
(*                                                                         *)
(* JavaScript values are modelled as tagged records, zod types by their    *)
(* _def (typeName plus value / innerType), and a JavaScript object (a zod  *)
(* shape, the #schemas record of a repository) as the sequence of its own  *)
(* properties in the order Object.keys / Object.values enumerate them.     *)
(***************************************************************************)
EXTENDS Integers, Sequences, FiniteSets, TLC

\* Largest number used as a literal value / recognised as an integer key.
MaxIndex == 9

\* Most arrays a caller obtains from the schemas getter, and the most
\* elements a caller lets one of them have.
MaxArrays == 2
MaxItems == 2

\* Longest chain of optional/default wrappers around a field's type, and the
\* longest localBlacklist, of the schemas and calls given to the pipeline.
MaxWrap == 3
MaxFilters == 2

\* Longest the caller lets the array it passed as globalBlacklist become.
MaxGlobal == 3

\* The most register calls made on a registry of the older implementation.
MaxCalls == 2

----------------------------------------------------------------------------
(* JavaScript values that can be the value of a z.literal(...)            *)

Str(s) == [jstype |-> "string", str |-> s]
Num(n) == [jstype |-> "number", num |-> n]
Undefined == [jstype |-> "undefined"]

Digit == <<"0", "1", "2", "3", "4", "5", "6", "7", "8", "9">>

\* String(n) for a non-negative integer n.
RECURSIVE NumToStr(_)
NumToStr(n) ==
  IF n < 10 THEN Digit[n + 1]
  ELSE NumToStr(n \div 10) \o Digit[(n % 10) + 1]

\* The property key a value is converted to when used as obj[value].
ToPropertyKey(v) ==
  IF v.jstype = "string" THEN v.str
  ELSE IF v.jstype = "number" THEN NumToStr(v.num)
  ELSE "undefined"

\* JavaScript truthiness: !v is true for undefined, "" and 0.
Truthy(v) ==
  IF v.jstype = "string" THEN v.str # ""
  ELSE IF v.jstype = "number" THEN v.num # 0
  ELSE FALSE

\* key === v for a string key.
StrictEqualsKey(key, v) == v.jstype = "string" /\ v.str = key

----------------------------------------------------------------------------
(* JavaScript objects as ordered property lists                            *)

\* A key that is a canonical array index is enumerated before string keys,
\* in ascending numeric order.
IsArrayIndex(k) == \E n \in 0..MaxIndex : NumToStr(n) = k
IndexValue(k) == CHOOSE n \in 0..MaxIndex : NumToStr(n) = k

ObjKeys(o) == [i \in 1..Len(o) |-> o[i].key]
ObjValues(o) == [i \in 1..Len(o) |-> o[i].val]
ObjHas(o, k) == \E i \in 1..Len(o) : o[i].key = k
ObjPos(o, k) == CHOOSE i \in 1..Len(o) : o[i].key = k
ObjGet(o, k) == o[ObjPos(o, k)].val

\* o[k] = v on a store that enumerates every key in insertion order.
ObjSetAppend(o, k, v) ==
  LET e == [key |-> k, val |-> v] IN
  IF ObjHas(o, k)
    THEN LET i == ObjPos(o, k)
         IN SubSeq(o, 1, i - 1) \o <<e>> \o SubSeq(o, i + 1, Len(o))
  ELSE Append(o, e)

\* o[k] = v : an existing property keeps its place, a new one is placed
\* where the enumeration order of own properties puts it.
ObjSet(o, k, v) ==
  LET e == [key |-> k, val |-> v] IN
  IF ObjHas(o, k)
    THEN LET i == ObjPos(o, k)
         IN SubSeq(o, 1, i - 1) \o <<e>> \o SubSeq(o, i + 1, Len(o))
  ELSE IF IsArrayIndex(k)
    THEN LET n == IndexValue(k)
             pos == Cardinality({i \in 1..Len(o) :
                        IsArrayIndex(o[i].key) /\ IndexValue(o[i].key) < n})
         IN SubSeq(o, 1, pos) \o <<e>> \o SubSeq(o, pos + 1, Len(o))
  ELSE Append(o, e)

\* The object without property k.
RECURSIVE ObjOmit(_, _)
ObjOmit(o, k) ==
  IF o = << >> THEN << >>
  ELSE IF Head(o).key = k THEN ObjOmit(Tail(o), k)
  ELSE <<Head(o)>> \o ObjOmit(Tail(o), k)

----------------------------------------------------------------------------
(* zod types                                                               *)

ZString == [typeName |-> "ZodString"]
ZNumber == [typeName |-> "ZodNumber"]
ZEnum == [typeName |-> "ZodEnum"]
ZLiteral(v) == [typeName |-> "ZodLiteral", value |-> v]
ZOptional(t) == [typeName |-> "ZodOptional", innerType |-> t]
ZDefault(t) == [typeName |-> "ZodDefault", innerType |-> t]
ZObject(shape) == [typeName |-> "ZodObject", shape |-> shape]

Field(k, t) == [key |-> k, val |-> t]

\* schema.shape.<key>: the field's type, or Missing when there is no such field.
Missing == [typeName |-> "undefined"]
ShapeGet(schema, k) ==
  IF ObjHas(schema.shape, k) THEN ObjGet(schema.shape, k) ELSE Missing

\* schema.pick({type: true}) and schema.omit({type: true}).
pick(schema, k) ==
  ZObject(IF ObjHas(schema.shape, k)
            THEN <<Field(k, ObjGet(schema.shape, k))>> ELSE << >>)
omit(schema, k) == ZObject(ObjOmit(schema.shape, k))

\* a.merge(b): {...a.shape, ...b.shape}.
RECURSIVE ObjAssign(_, _)
ObjAssign(o, src) ==
  IF src = << >> THEN o
  ELSE ObjAssign(ObjSet(o, Head(src).key, Head(src).val), Tail(src))
merge(a, b) == ZObject(ObjAssign(a.shape, b.shape))

\* type.safeParse(v).success, where v is Undefined for an absent property.
RECURSIVE parseType(_, _)
parseType(t, v) ==
  CASE t.typeName = "ZodString"   -> v.jstype = "string"
    [] t.typeName = "ZodNumber"   -> v.jstype = "number"
    [] t.typeName = "ZodLiteral"  -> v = t.value
    [] t.typeName = "ZodOptional" -> v = Undefined \/ parseType(t.innerType, v)
    [] t.typeName = "ZodDefault"  -> v = Undefined \/ parseType(t.innerType, v)
    [] OTHER -> FALSE

\* data.<key> of a plain data object.
DataGet(data, k) == IF ObjHas(data, k) THEN ObjGet(data, k) ELSE Undefined

\* schema.safeParse(data).success for a z.object: every field of the shape
\* accepts the property of that name; unknown properties are stripped.
parseObject(schema, data) ==
  \A i \in 1..Len(schema.shape) :
     parseType(schema.shape[i].val, DataGet(data, schema.shape[i].key))

\* z.discriminatedUnion("type", options).safeParse(data).success: the option
\* whose type literal is data.type decides; no such option, no success.
parseUnion(options, data) ==
  \E i \in 1..Len(options) :
     /\ ShapeGet(options[i], "type").value = DataGet(data, "type")
     /\ parseObject(options[i], data)

\* z.enum(keys).safeParse(v).success
parseEnum(keys, v) ==
  /\ v.jstype = "string"
  /\ \E i \in 1..Len(keys) : keys[i] = v.str

----------------------------------------------------------------------------
(* Caller-supplied filter predicates (SchemaFilter), by name               *)

FilterNames ==
  {"keyIsAge", "isOptional", "keyIsType", "always", "throws", "throwsOnType"}

\* f(key, zodObj): "true", "false", or "throw" when the predicate raises.
CallFilter(f, key, zodObj) ==
  CASE f = "keyIsAge"   -> IF key = "age" THEN "true" ELSE "false"
    [] f = "isOptional" -> IF zodObj.typeName = "ZodOptional" THEN "true" ELSE "false"
    [] f = "keyIsType"  -> IF key = "type" THEN "true" ELSE "false"
    [] f = "always"     -> "true"
    [] f = "throws"     -> "throw"
    [] f = "throwsOnType" -> IF key = "type" THEN "throw" ELSE "false"

----------------------------------------------------------------------------
(* The filter pipeline                                                     *)

\* One pass of the loop body: the default is removed first, then the optional.
StripPass(t) ==
  LET a == IF t.typeName = "ZodDefault" THEN t.innerType ELSE t
  IN IF a.typeName = "ZodOptional" THEN a.innerType ELSE a

\* hasChanges after one pass.
PassChanges(t) ==
  LET a == IF t.typeName = "ZodDefault" THEN t.innerType ELSE t
  IN t.typeName = "ZodDefault" \/ a.typeName = "ZodOptional"

\* The loop body run once.
removeOnePass(zodType) == StripPass(zodType)

\* The number of times the loop body of removeDefaultsAndOptionals runs.
RECURSIVE passes(_)
passes(zodType) ==
  IF PassChanges(zodType) THEN 1 + passes(StripPass(zodType)) ELSE 1

RECURSIVE removeDefaultsAndOptionals(_)
removeDefaultsAndOptionals(zodType) ==
  IF PassChanges(zodType)
    THEN removeDefaultsAndOptionals(StripPass(zodType))
    ELSE zodType

\* Only the first predicate of the list is asked.
someHeadOnly(blacklistedFields, key, zodObj) ==
  IF blacklistedFields = << >> THEN "false"
  ELSE CallFilter(Head(blacklistedFields), key, zodObj)

\* blacklistedFields.every((f) => f(key, zodObj)) in the place of some.
RECURSIVE someEvery(_, _, _)
someEvery(blacklistedFields, key, zodObj) ==
  IF blacklistedFields = << >> THEN "true"
  ELSE LET r == CallFilter(Head(blacklistedFields), key, zodObj)
       IN IF r = "true" THEN someEvery(Tail(blacklistedFields), key, zodObj) ELSE r

\* blacklistedFields.some((f) => f(key, zodObj)): stops at the first predicate
\* that returns true or raises.
RECURSIVE some(_, _, _)
some(blacklistedFields, key, zodObj) ==
  IF blacklistedFields = << >> THEN "false"
  ELSE LET r == CallFilter(Head(blacklistedFields), key, zodObj)
       IN IF r = "false" THEN some(Tail(blacklistedFields), key, zodObj) ELSE r

\* The entries that pass .filter(...), each put into the accumulator of
\* .reduce(...) after removeDefaultsAndOptionals.
RECURSIVE reduceShape(_, _, _)
reduceShape(entries, blacklistedFields, acc) ==
  IF entries = << >> THEN acc
  ELSE LET e == Head(entries)
       IN reduceShape(Tail(entries), blacklistedFields,
            IF some(blacklistedFields, e.key, e.val) = "true"
              THEN acc
              ELSE ObjSet(acc, e.key, removeDefaultsAndOptionals(e.val)))

filteredShape(entries, blacklistedFields) ==
  reduceShape(entries, blacklistedFields, << >>)

\* applyFilter raises when a predicate raises for some field.
applyFilterThrows(schema, blacklistedFields) ==
  \E i \in 1..Len(omit(schema, "type").shape) :
     LET e == omit(schema, "type").shape[i]
     IN some(blacklistedFields, e.key, e.val) = "throw"

\* applyFilter with the predicates shown every field, type included, and the
\* type field not put back.
applyFilterUnprotected(schema, blacklistedFields) ==
  ZObject(filteredShape(schema.shape, blacklistedFields))

\* applyFilter without the final merge of the type field.
applyFilterWithoutType(schema, blacklistedFields) ==
  ZObject(filteredShape(omit(schema, "type").shape, blacklistedFields))

applyFilter(schema, blacklistedFields) ==
  LET typeField == pick(schema, "type")
      withoutTypeField == omit(schema, "type")
  IN merge(ZObject(filteredShape(withoutTypeField.shape, blacklistedFields)),
           typeField)

\* The pipeline run on the schema's own shape instead of on copies.
schemaFilteredInPlace(schema, blacklistedFields) ==
  applyFilter(schema, blacklistedFields)

\* The caller's schema object as applyFilter leaves it: pick, omit,
\* Object.entries, filter, reduce into a literal {} and merge each build a new
\* object, and the unwrapping reads _def.innerType without assigning to it.
schemaAfterFilter(schema, blacklistedFields) == schema

----------------------------------------------------------------------------
(* SchemaRepo                                                              *)

Null == [typeName |-> "null"]

\* The guard of add: the schema has no type field with a value.
addThrows(schema) ==
  LET typeField == ShapeGet(schema, "type")
  IN \/ typeField = Missing
     \/ "value" \notin DOMAIN typeField
     \/ typeField.value = Undefined

\* add with the schema stored under the type field object itself, whose
\* property key is "[object Object]".
addKeyIsTypeObject(repo, schema) == ObjSet(repo, "[object Object]", schema)

\* add that keeps the entry already stored under the key.
addKeepsFirst(repo, schema) ==
  LET k == ToPropertyKey(ShapeGet(schema, "type").value)
  IN IF ObjHas(repo, k) THEN repo ELSE ObjSet(repo, k, schema)

\* add that replaces the store by one holding the new schema only.
addReplacesStore(repo, schema) ==
  <<[key |-> ToPropertyKey(ShapeGet(schema, "type").value), val |-> schema]>>

\* this.#schemas[typeField._def.value] = schema
add(repo, schema) ==
  ObjSet(repo, ToPropertyKey(ShapeGet(schema, "type").value), schema)

schemas(repo) == ObjValues(repo)

\* Some of the names every object literal inherits from Object.prototype,
\* and the inherited member: a function, neither null nor undefined.
ObjectPrototypeKeys == {"constructor", "toString", "valueOf", "hasOwnProperty"}
PrototypeMember(name) == [typeName |-> "function", name |-> name]

\* this.#schemas[name] ?? null : an own property, else an inherited one, else
\* undefined, which ?? turns into null.
factory(repo, name) ==
  IF ObjHas(repo, name) THEN ObjGet(repo, name)
  ELSE IF name \in ObjectPrototypeKeys THEN PrototypeMember(name)
  ELSE Null

constructUnion(repo) ==
  IF Len(ObjValues(repo)) < 2
    THEN [status |-> "InsufficientSchemas", options |-> << >>]
    ELSE [status |-> "ok", options |-> ObjValues(repo)]

union(repo) == constructUnion(repo)

\* enum with Object.keys.length (the arity of Object.keys, 1) tested instead
\* of the number of keys: the guard is always true.
enumKeysFunctionLength(repo) ==
  [status |-> "InsufficientSchemas", options |-> << >>]

enum(repo) ==
  IF Len(ObjKeys(repo)) < 2
    THEN [status |-> "InsufficientSchemas", options |-> << >>]
    ELSE [status |-> "ok", options |-> ObjKeys(repo)]

----------------------------------------------------------------------------
(* Inputs                                                                  *)

Schema(typeField, rest) ==
  ZObject(IF typeField = Missing THEN rest ELSE <<Field("type", typeField)>> \o rest)

IdOnly == <<Field("id", ZString)>>
IdAge == <<Field("id", ZString), Field("age", ZOptional(ZNumber))>>
IdTheme == <<Field("id", ZString), Field("theme", ZDefault(ZString))>>

UserSchema == Schema(ZLiteral(Str("user")), IdAge)
UserSchemaV2 == Schema(ZLiteral(Str("user")), IdTheme)
PostSchema == Schema(ZLiteral(Str("post")), IdOnly)
SevenSchema == Schema(ZLiteral(Num(7)), IdOnly)

OneSchema == Schema(ZLiteral(Str("1")), IdOnly)
TwoSchema == Schema(ZLiteral(Str("2")), IdOnly)

\* Schemas with pairwise distinct discriminators, some of them digit strings.
DistinctSchemas == {UserSchema, PostSchema, SevenSchema, OneSchema, TwoSchema}

ValidSchemas ==
  {UserSchema, UserSchemaV2, PostSchema, SevenSchema}

InvalidSchemas ==
  { Schema(Missing, IdOnly),
    Schema(ZString, IdOnly),
    Schema(ZEnum, IdOnly),
    Schema(ZOptional(ZLiteral(Str("user"))), IdOnly),
    Schema(ZLiteral(Str("")), IdOnly),
    Schema(ZLiteral(Undefined), IdOnly),
    Schema(ZLiteral(Num(0)), IdOnly) }

Schemas == ValidSchemas \cup InvalidSchemas

\* A type under every chain of at most n optional/default wrappers.
RECURSIVE Wrapped(_, _)
Wrapped(t, n) ==
  IF n = 0 THEN {t}
  ELSE Wrapped(t, n - 1)
         \cup {ZOptional(w) : w \in Wrapped(t, n - 1)}
         \cup {ZDefault(w) : w \in Wrapped(t, n - 1)}

\* A schema with an optional nested object whose own fields are wrapped.
NestedSchema ==
  Schema(ZLiteral(Str("user")),
         <<Field("id", ZString),
           Field("settings",
                 ZOptional(ZObject(<<Field("theme", ZDefault(ZString)),
                                     Field("language", ZOptional(ZString))>>)))>>)

\* The schemas given to the pipeline: a required field next to a field under
\* each chain of wrappers.
ChainSchemas ==
  {Schema(ZLiteral(Str("user")), <<Field("id", ZString), Field("age", w)>>) :
     w \in Wrapped(ZNumber, MaxWrap)}
  \cup {PostSchema, SevenSchema, NestedSchema}

\* The sequences over S of length at most n.
RECURSIVE SeqsUpTo(_, _)
SeqsUpTo(S, n) ==
  IF n = 0 THEN {<< >>}
  ELSE SeqsUpTo(S, n - 1)
         \cup {Append(q, x) : q \in SeqsUpTo(S, n - 1), x \in S}

\* The predicates given to the pipeline: those that raise for no field it
\* shows them.
PipelineFilters == FilterNames \ {"throws"}
PipelineGlobals == {<< >>, <<"always">>, <<"keyIsType">>, <<"isOptional">>}
PipelineLocals == SeqsUpTo(PipelineFilters, MaxFilters)

\* The globalBlacklist options a registry is constructed with.
GlobalBlacklists == { << >>, <<"keyIsType", "isOptional">> }

\* The localBlacklist arguments callers pass to register.
LocalBlacklists == { << >>, <<"keyIsAge">>, <<"throws">> }

\* Data handed to the parsers: a discriminator and some of the properties.
DataTypes == {Str("user"), Str("post"), Num(7), Str("7"), Str("order")}
DataRests ==
  { << >>,
    <<Field("id", Str("a"))>>,
    <<Field("id", Num(1))>>,
    <<Field("id", Str("a")), Field("age", Num(1))>>,
    <<Field("id", Str("a")), Field("age", Str("x"))>>,
    <<Field("id", Str("a")), Field("theme", Str("dark"))>>,
    <<Field("id", Str("a")), Field("theme", Num(1))>> }
Data == {<<Field("type", t)>> \o rest : t \in DataTypes, rest \in DataRests}

RepoNames == {"original", "llm"}
TagNames == {"user", "7", "order", "toString"}

----------------------------------------------------------------------------
(* Registry                                                                *)

VARIABLES
  globalBlacklist,  \* Registry._globalBlacklist
  original,         \* Registry._original.#schemas
  llm,              \* Registry._llm.#schemas
  last,             \* the last call made on the registry and how it ended
  insufficient,     \* the repositories on which a union/enum read has raised
  firstUnion,       \* per repository, the options of the first union built
  order,            \* the discriminators in the order of their registration
  arrays,           \* the arrays returned by the schemas getter, by identity
  constructed,      \* the options.globalBlacklist the constructor was given
  other,            \* a second Registry: its _globalBlacklist and repositories
  running,          \* the register call in progress, where it stands
  invoked           \* the predicate invocations of the call in progress

\* What the callers of the registry hold and remember of earlier calls.
observers ==
  <<insufficient, firstUnion, order, arrays, constructed, other, running,
    invoked>>

vars == <<globalBlacklist, original, llm, last, observers>>

Repo(r) == IF r = "original" THEN original ELSE llm

NoCall ==
  [op |-> "none", repo |-> "", schema |-> Null, localBlacklist |-> << >>,
   ignoreLLM |-> FALSE, name |-> "", result |-> "none", value |-> << >>,
   ref |-> 0, after |-> Null]

\* The check with its conditions joined by "and": it can only fire when the
\* type field is missing.
MissingDiscriminatorAllOf(schema) == ShapeGet(schema, "type") = Missing

\* The check without the test of the literal's value.
MissingDiscriminatorNoValue(schema) ==
  LET type == ShapeGet(schema, "type")
  IN \/ type = Missing
     \/ ~(type.typeName = "ZodLiteral")

\* The check at the head of register.
MissingDiscriminator(schema) ==
  LET type == ShapeGet(schema, "type")
  IN \/ type = Missing
     \/ ~(type.typeName = "ZodLiteral")
     \/ ~Truthy(type.value)

\* The discriminator key of a schema that passes the check.
Tag(schema) == ToPropertyKey(ShapeGet(schema, "type").value)

\* No register call is in progress.
Idle == [at |-> "idle"]

Init ==
  /\ globalBlacklist \in GlobalBlacklists
  /\ original = << >>
  /\ llm = << >>
  /\ last = NoCall
  /\ insufficient = {}
  /\ firstUnion = [r \in RepoNames |-> << >>]
  /\ order = << >>
  /\ arrays = << >>
  /\ constructed = [given |-> globalBlacklist # << >>, list |-> globalBlacklist]
  /\ other = [globalBlacklist |-> << >>, original |-> << >>, llm |-> << >>]
  /\ running = Idle
  /\ invoked = << >>

\* The option read the wrong way round, and not read at all.
writesLLMInverted(ignoreLLM) == ignoreLLM
writesLLMAlways(ignoreLLM) == TRUE

\* !(opts?.ignoreLLM ?? false)
writesLLM(ignoreLLM) == ~ignoreLLM

\* The predicates of the call before kept in front of those of this call.
effectiveBlacklistSticky(localBlacklist) ==
  globalBlacklist \o last.localBlacklist \o localBlacklist

\* The local predicates spread in front of the global ones.
effectiveBlacklistLocalFirst(localBlacklist) == localBlacklist \o globalBlacklist

\* [...this._globalBlacklist, ...(localBlacklist || [])]
effectiveBlacklist(localBlacklist) == globalBlacklist \o localBlacklist

\* register with the original repository written before the discriminator
\* check.
registerAddsFirst(schema, localBlacklist, ignoreLLM) ==
  LET call == [NoCall EXCEPT !.op = "register", !.schema = schema,
                             !.localBlacklist = localBlacklist,
                             !.ignoreLLM = ignoreLLM]
      blacklist == globalBlacklist \o localBlacklist
  IN
  /\ UNCHANGED globalBlacklist
  /\ IF addThrows(schema)
       THEN /\ last' = [call EXCEPT !.result = "AddError"]
            /\ UNCHANGED <<original, llm>>
     ELSE /\ original' = add(original, schema)
          /\ IF MissingDiscriminator(schema)
               THEN /\ last' = [call EXCEPT !.result = "MissingDiscriminator"]
                    /\ UNCHANGED llm
             ELSE IF ~writesLLM(ignoreLLM)
               THEN /\ last' = [call EXCEPT !.result = "ok"]
                    /\ UNCHANGED llm
             ELSE IF applyFilterThrows(schema, blacklist)
               THEN /\ last' = [call EXCEPT !.result = "FilterError"]
                    /\ UNCHANGED llm
             ELSE /\ llm' = add(llm, applyFilter(schema, blacklist))
                  /\ last' = [call EXCEPT !.result = "ok"]

\* register that writes the original repository only when ignoreLLM is set,
\* and the llm repository alone otherwise.
registerEitherRepository(schema, localBlacklist, ignoreLLM) ==
  LET call == [NoCall EXCEPT !.op = "register", !.schema = schema,
                             !.localBlacklist = localBlacklist,
                             !.ignoreLLM = ignoreLLM, !.after = schema]
      blacklist == effectiveBlacklist(localBlacklist)
  IN
  /\ UNCHANGED globalBlacklist
  /\ IF MissingDiscriminator(schema)
       THEN /\ last' = [call EXCEPT !.result = "MissingDiscriminator"]
            /\ UNCHANGED <<original, llm>>
     ELSE IF addThrows(schema)
       THEN /\ last' = [call EXCEPT !.result = "AddError"]
            /\ UNCHANGED <<original, llm>>
     ELSE IF ~writesLLM(ignoreLLM)
       THEN /\ original' = add(original, schema)
            /\ last' = [call EXCEPT !.result = "ok"]
            /\ UNCHANGED llm
     ELSE IF applyFilterThrows(schema, blacklist)
       THEN /\ last' = [call EXCEPT !.result = "FilterError"]
            /\ UNCHANGED <<original, llm>>
     ELSE IF addThrows(applyFilter(schema, blacklist))
       THEN /\ last' = [call EXCEPT !.result = "AddError"]
            /\ UNCHANGED <<original, llm>>
     ELSE /\ llm' = add(llm, applyFilter(schema, blacklist))
          /\ last' = [call EXCEPT !.result = "ok"]
          /\ UNCHANGED original

register(schema, localBlacklist, ignoreLLM) ==
  LET call == [NoCall EXCEPT !.op = "register", !.schema = schema,
                             !.localBlacklist = localBlacklist,
                             !.ignoreLLM = ignoreLLM, !.after = schema]
      blacklist == effectiveBlacklist(localBlacklist)
      \* the caller's object once the call is over; the original repository
      \* holds a reference to it
      after == schemaAfterFilter(schema, blacklist)
  IN
  /\ UNCHANGED globalBlacklist
  /\ IF MissingDiscriminator(schema)
       THEN /\ last' = [call EXCEPT !.result = "MissingDiscriminator"]
            /\ UNCHANGED <<original, llm>>
     ELSE IF addThrows(schema)
       THEN /\ last' = [call EXCEPT !.result = "AddError"]
            /\ UNCHANGED <<original, llm>>
     ELSE IF ~writesLLM(ignoreLLM)
       THEN /\ original' = add(original, schema)
            /\ last' = [call EXCEPT !.result = "ok"]
            /\ UNCHANGED llm
     ELSE IF applyFilterThrows(schema, blacklist)
       THEN /\ original' = add(original, schema)
            /\ last' = [call EXCEPT !.result = "FilterError"]
            /\ UNCHANGED llm
     ELSE IF addThrows(applyFilter(schema, blacklist))
       THEN /\ original' = add(original, after)
            /\ last' = [call EXCEPT !.result = "AddError", !.after = after]
            /\ UNCHANGED llm
     ELSE /\ original' = add(original, after)
          /\ llm' = add(llm, applyFilter(schema, blacklist))
          /\ last' = [call EXCEPT !.result = "ok", !.after = after]

\* union with the failure remembered: once it has raised on a repository it
\* raises on it again.
readUnionSticky(r) ==
  /\ last' = [NoCall EXCEPT !.op = "union", !.repo = r,
                            !.result = IF r \in insufficient
                                         THEN "InsufficientSchemas"
                                         ELSE union(Repo(r)).status]
  /\ UNCHANGED <<globalBlacklist, original, llm>>

\* union with the union built once per repository and returned ever after.
readUnionCached(r) ==
  LET u == IF firstUnion[r] # << >>
             THEN [status |-> "ok", options |-> firstUnion[r]]
             ELSE union(Repo(r))
  IN /\ last' = [NoCall EXCEPT !.op = "union", !.repo = r,
                               !.result = u.status, !.value = u.options]
     /\ UNCHANGED <<globalBlacklist, original, llm>>

readUnion(r) ==
  /\ last' = [NoCall EXCEPT !.op = "union", !.repo = r,
                            !.result = union(Repo(r)).status,
                            !.value = union(Repo(r)).options]
  /\ UNCHANGED <<globalBlacklist, original, llm>>

readEnum(r) ==
  /\ last' = [NoCall EXCEPT !.op = "enum", !.repo = r,
                            !.result = enum(Repo(r)).status,
                            !.value = enum(Repo(r)).options]
  /\ UNCHANGED <<globalBlacklist, original, llm>>

readFactory(r, name) ==
  /\ last' = [NoCall EXCEPT !.op = "factory", !.repo = r, !.name = name,
                            !.result = IF factory(Repo(r), name) = Null
                                         THEN "null" ELSE "ok",
                            !.value = <<factory(Repo(r), name)>>]
  /\ UNCHANGED <<globalBlacklist, original, llm>>

readSchemas(r) ==
  /\ last' = [NoCall EXCEPT !.op = "schemas", !.repo = r, !.result = "ok",
                            !.value = schemas(Repo(r))]
  /\ UNCHANGED <<globalBlacklist, original, llm>>

Next ==
  \/ /\ \E schema \in Schemas, localBlacklist \in LocalBlacklists,
           ignoreLLM \in BOOLEAN : register(schema, localBlacklist, ignoreLLM)
     /\ UNCHANGED observers
  \/ /\ \E r \in RepoNames : readUnion(r)
     /\ UNCHANGED observers
  \/ /\ \E r \in RepoNames : readEnum(r)
     /\ UNCHANGED observers
  \/ /\ \E r \in RepoNames, name \in TagNames : readFactory(r, name)
     /\ UNCHANGED observers
  \/ /\ \E r \in RepoNames : readSchemas(r)
     /\ UNCHANGED observers

Spec == Init /\ [][Next]_vars

\* The same registry with an observer that remembers on which repositories a
\* union or enum read has raised InsufficientSchemas.
Observe(r) ==
  /\ insufficient' = IF last'.result = "InsufficientSchemas"
                       THEN insufficient \cup {r} ELSE insufficient
  /\ UNCHANGED <<firstUnion, order, arrays, constructed, other, running, invoked>>

NextObserved ==
  \/ /\ \E schema \in ValidSchemas, ignoreLLM \in BOOLEAN :
           register(schema, << >>, ignoreLLM)
     /\ UNCHANGED observers
  \/ \E r \in RepoNames : readUnion(r) /\ Observe(r)
  \/ \E r \in RepoNames : readEnum(r) /\ Observe(r)

SpecObserved == Init /\ [][NextObserved]_vars

\* The registry with an observer that keeps, per repository, the options of
\* the first union it was handed.
ObserveUnion(r) ==
  /\ firstUnion' = IF firstUnion[r] = << >> /\ last'.result = "ok"
                     THEN [firstUnion EXCEPT ![r] = last'.value]
                     ELSE firstUnion
  /\ UNCHANGED <<insufficient, order, arrays, constructed, other, running, invoked>>

NextUnions ==
  \/ /\ \E schema \in ValidSchemas, ignoreLLM \in BOOLEAN :
           register(schema, << >>, ignoreLLM)
     /\ UNCHANGED observers
  \/ \E r \in RepoNames : readUnion(r) /\ ObserveUnion(r)

SpecUnions == Init /\ [][NextUnions]_vars

\* The registry given schemas of pairwise distinct discriminators, with an
\* observer that keeps the order of the registrations.
ObserveOrder ==
  /\ order' = Append(order, Tag(last'.schema))
  /\ UNCHANGED <<insufficient, firstUnion, constructed, other, running, invoked,
                 arrays>>

NextOrder ==
  \/ \E schema \in DistinctSchemas :
       /\ \A i \in 1..Len(order) : order[i] # Tag(schema)
       /\ register(schema, << >>, FALSE)
       /\ ObserveOrder
  \/ /\ \E r \in RepoNames : readEnum(r)
     /\ UNCHANGED observers

SpecOrder == Init /\ [][NextOrder]_vars

\* The array the getter returns is the one it returned before for the same
\* repository, when there is one.
valuesArrayReused(r) ==
  IF \E i \in 1..Len(arrays) : arrays[i].repo = r
    THEN CHOOSE i \in 1..Len(arrays) : arrays[i].repo = r
    ELSE Len(arrays) + 1

\* Object.values(...) allocates the array it returns.
valuesArray(r) == Len(arrays) + 1

\* The schemas getter, with the identity of the array it returns.
getSchemas(r) ==
  LET ref == valuesArray(r) IN
  /\ ref <= MaxArrays
  /\ arrays' = IF ref > Len(arrays)
                 THEN Append(arrays, [repo |-> r, items |-> schemas(Repo(r))])
                 ELSE arrays
  /\ last' = [NoCall EXCEPT !.op = "schemas", !.repo = r, !.result = "ok",
                            !.value = arrays'[ref].items, !.ref = ref]
  /\ UNCHANGED <<globalBlacklist, original, llm>>

\* The caller's schemas1.pop() and schemas1.push(schema) on a returned array.
pop(ref) ==
  /\ arrays[ref].items # << >>
  /\ arrays' = [arrays EXCEPT ![ref].items = SubSeq(@, 1, Len(@) - 1)]
  /\ last' = [NoCall EXCEPT !.op = "pop", !.ref = ref]
  /\ UNCHANGED <<globalBlacklist, original, llm>>

push(ref, schema) ==
  /\ Len(arrays[ref].items) < MaxItems
  /\ arrays' = [arrays EXCEPT ![ref].items = Append(@, schema)]
  /\ last' = [NoCall EXCEPT !.op = "push", !.ref = ref, !.schema = schema]
  /\ UNCHANGED <<globalBlacklist, original, llm>>

NextSnapshots ==
  \/ /\ \E schema \in {UserSchema, PostSchema} : register(schema, << >>, FALSE)
     /\ UNCHANGED observers
  \/ /\ \E r \in RepoNames : getSchemas(r)
     /\ UNCHANGED <<insufficient, firstUnion, order, constructed, other,
                    running, invoked>>
  \/ /\ \E ref \in 1..Len(arrays) : pop(ref)
     /\ UNCHANGED <<insufficient, firstUnion, order, constructed, other,
                    running, invoked>>
  \/ /\ \E ref \in 1..Len(arrays) : push(ref, PostSchema)
     /\ UNCHANGED <<insufficient, firstUnion, order, constructed, other,
                    running, invoked>>
  \/ /\ \E r \in RepoNames : readEnum(r) \/ readUnion(r) \/ readFactory(r, "user")
     /\ UNCHANGED observers

SpecSnapshots == Init /\ [][NextSnapshots]_vars

\* The registry and the caller that keeps the array it passed as
\* options.globalBlacklist.  The constructor stores that very array
\* (this._globalBlacklist = options?.globalBlacklist ?? []), so a push by the
\* caller is a push on _globalBlacklist; without the option the registry's
\* array is its own.
InitAliased ==
  /\ globalBlacklist \in GlobalBlacklists
  /\ constructed \in {[given |-> g, list |-> globalBlacklist] :
                        g \in IF globalBlacklist = << >> THEN BOOLEAN ELSE {TRUE}}
  /\ original = << >>
  /\ llm = << >>
  /\ last = NoCall
  /\ insufficient = {}
  /\ firstUnion = [r \in RepoNames |-> << >>]
  /\ order = << >>
  /\ arrays = << >>
  /\ other = [globalBlacklist |-> << >>, original |-> << >>, llm |-> << >>]
  /\ running = Idle
  /\ invoked = << >>

callerPush(f) ==
  /\ constructed.given
  /\ Len(globalBlacklist) < MaxGlobal
  /\ globalBlacklist' = Append(globalBlacklist, f)
  /\ last' = [NoCall EXCEPT !.op = "callerPush", !.name = f]
  /\ UNCHANGED <<original, llm>>

NextAliased ==
  \/ /\ \E schema \in {UserSchema, PostSchema}, localBlacklist \in LocalBlacklists :
           register(schema, localBlacklist, FALSE)
     /\ UNCHANGED observers
  \/ /\ \E f \in {"always", "keyIsAge"} : callerPush(f)
     /\ UNCHANGED observers

SpecAliased == InitAliased /\ [][NextAliased]_vars

\* The registry and the callers of the objects its original and llm getters
\* return.

\* The members of a view had the getters been typed ModifiableRepo.
ViewMembersModifiable == {"schemas", "enum", "union", "factory", "add"}

\* The members of interface Repo, the type of the getters original and llm.
ViewMembers == {"schemas", "enum", "union", "factory"}

\* SchemaRepo.add called on repository r.
repoAdd(r, schema) ==
  /\ ~addThrows(schema)
  /\ original' = IF r = "original" THEN add(original, schema) ELSE original
  /\ llm' = IF r = "llm" THEN add(llm, schema) ELSE llm
  /\ last' = [NoCall EXCEPT !.op = "add", !.repo = r, !.schema = schema,
                            !.result = "ok"]
  /\ UNCHANGED globalBlacklist

\* A call of a member of the SchemaRepo object behind a view; the caller can
\* name the members of the view's type.
viewCall(r, member) ==
  /\ member \in ViewMembers
  /\ CASE member = "schemas" -> readSchemas(r)
       [] member = "union"   -> readUnion(r)
       [] member = "enum"    -> readEnum(r)
       [] member = "factory" -> \E name \in TagNames : readFactory(r, name)
       [] member = "add"     -> \E schema \in ValidSchemas : repoAdd(r, schema)

NextViews ==
  \/ /\ \E schema \in ValidSchemas, ignoreLLM \in BOOLEAN :
           register(schema, << >>, ignoreLLM)
     /\ UNCHANGED observers
  \/ /\ \E r \in RepoNames, member \in ViewMembersModifiable : viewCall(r, member)
     /\ UNCHANGED observers

SpecViews == Init /\ [][NextViews]_vars

\* register step by step, stopping where it runs the caller's code: each
\* invocation of a predicate by blacklistedFields.some inside
\* Object.entries(...).filter.

\* The steps up to the first predicate invocation: the check, the write to
\* the original repository, the spread of the two lists.
registerBegin(schema, localBlacklist, ignoreLLM) ==
  LET call == [NoCall EXCEPT !.op = "register", !.schema = schema,
                             !.localBlacklist = localBlacklist,
                             !.ignoreLLM = ignoreLLM, !.after = schema]
  IN
  /\ running = Idle
  /\ invoked' = << >>
  /\ UNCHANGED <<globalBlacklist, llm>>
  /\ IF MissingDiscriminator(schema)
       THEN /\ last' = [call EXCEPT !.result = "MissingDiscriminator"]
            /\ UNCHANGED <<original, running>>
     ELSE IF addThrows(schema)
       THEN /\ last' = [call EXCEPT !.result = "AddError"]
            /\ UNCHANGED <<original, running>>
     ELSE /\ original' = add(original, schema)
          /\ IF ~writesLLM(ignoreLLM)
               THEN /\ last' = [call EXCEPT !.result = "ok"]
                    /\ UNCHANGED running
               ELSE /\ last' = [call EXCEPT !.result = "running"]
                    /\ running' = [at |-> "filter", schema |-> schema,
                                   localBlacklist |-> localBlacklist,
                                   blacklistedFields |-> effectiveBlacklist(localBlacklist),
                                   entries |-> omit(schema, "type").shape,
                                   field |-> 1, predicate |-> 1]

\* The entries are all filtered, or there is no predicate to call.
FilterDone ==
  \/ running.field > Len(running.entries)
  \/ running.blacklistedFields = << >>

\* some that starts over at the first predicate when the last one returned
\* false.
nextInvocationRepeats(field, predicate, r, count) ==
  IF r = "true" THEN [field |-> field + 1, predicate |-> 1]
  ELSE [field |-> field, predicate |-> (predicate % count) + 1]

\* Where filter and some go on after the predicate at index predicate of
\* count returned r for the entry at index field: some ends at the first true
\* and after the last predicate, and filter takes the next entry.
nextInvocation(field, predicate, r, count) ==
  IF r = "true" \/ predicate = count
    THEN [field |-> field + 1, predicate |-> 1]
    ELSE [field |-> field, predicate |-> predicate + 1]

\* One invocation f(key, zodObj) by some: a result of true ends some for the
\* field, false goes on to the next predicate, a raise ends register.
invokePredicate ==
  /\ running # Idle
  /\ ~FilterDone
  /\ LET e == running.entries[running.field]
         f == running.blacklistedFields[running.predicate]
         r == CallFilter(f, e.key, e.val)
         next == nextInvocation(running.field, running.predicate, r,
                                Len(running.blacklistedFields))
     IN /\ invoked' = Append(invoked,
                          [key |-> e.key, index |-> running.predicate, f |-> f,
                           result |-> r, schema |-> running.schema,
                           original |-> factory(original, Tag(running.schema)),
                           llm |-> factory(llm, Tag(running.schema))])
        /\ IF r = "throw"
             THEN /\ running' = Idle
                  /\ last' = [last EXCEPT !.result = "FilterError"]
           ELSE /\ running' = [running EXCEPT !.field = next.field,
                                               !.predicate = next.predicate]
                /\ UNCHANGED last
  /\ UNCHANGED <<globalBlacklist, original, llm>>

\* The steps after the last predicate invocation: reduce, merge and the
\* write to the llm repository.
registerEnd ==
  /\ running # Idle
  /\ FilterDone
  /\ LET derived == applyFilter(running.schema, running.blacklistedFields) IN
     IF addThrows(derived)
       THEN /\ last' = [last EXCEPT !.result = "AddError"]
            /\ UNCHANGED llm
       ELSE /\ last' = [last EXCEPT !.result = "ok"]
            /\ llm' = add(llm, derived)
  /\ running' = Idle
  /\ UNCHANGED <<globalBlacklist, original, invoked>>

StepBlacklists ==
  LocalBlacklists \cup {<<"keyIsAge", "always">>, <<"isOptional", "throws">>}

NextSteps ==
  \/ /\ \E schema \in {UserSchema, PostSchema}, localBlacklist \in StepBlacklists,
            ignoreLLM \in BOOLEAN : registerBegin(schema, localBlacklist, ignoreLLM)
     /\ UNCHANGED <<insufficient, firstUnion, order, arrays, constructed, other>>
  \/ /\ invokePredicate
     /\ UNCHANGED <<insufficient, firstUnion, order, arrays, constructed, other>>
  \/ /\ registerEnd
     /\ UNCHANGED <<insufficient, firstUnion, order, arrays, constructed, other>>

SpecSteps == Init /\ [][NextSteps]_vars

-----------------------------------------------------------------------------
(* The older implementation of SchemaRepo and Registry                     *)

\* A caller-supplied predicate, by name; an entry of a blacklist is such a
\* function or, as applyFilter allows for, a string.
Fn(name) == [jstype |-> "function", name |-> name]

\* typeof f === "string" ? key === f : f(value)
oldCallFilter(f, key, value) ==
  IF f.jstype = "string" THEN (IF key = f.str THEN "true" ELSE "false")
  ELSE CASE f.name = "isOptional" ->
              IF value.typeName = "ZodOptional" THEN "true" ELSE "false"
         [] f.name = "isString" ->
              IF value.typeName = "ZodString" THEN "true" ELSE "false"
         [] f.name = "always" -> "true"
         \* (schema) => schema.shape.email !== undefined, which reads a
         \* property of undefined when the value has no shape
         [] f.name = "shapeHasEmail" ->
              IF value.typeName # "ZodObject" THEN "throw"
              ELSE IF ObjHas(value.shape, "email") THEN "true" ELSE "false"

RECURSIVE oldSome(_, _, _)
oldSome(blacklistedFields, key, value) ==
  IF blacklistedFields = << >> THEN "false"
  ELSE LET r == oldCallFilter(Head(blacklistedFields), key, value)
       IN IF r = "false" THEN oldSome(Tail(blacklistedFields), key, value) ELSE r

\* .filter(...) passes on the entries for which some entry of the list
\* answers true, and .reduce(...) strips each and puts it into {}.
RECURSIVE oldReduceShape(_, _, _)
oldReduceShape(entries, blacklistedFields, acc) ==
  IF entries = << >> THEN acc
  ELSE LET e == Head(entries)
       IN oldReduceShape(Tail(entries), blacklistedFields,
            IF oldSome(blacklistedFields, e.key, e.val) = "true"
              THEN ObjSet(acc, e.key, removeDefaultsAndOptionals(e.val))
              ELSE acc)

oldApplyFilterThrows(schema, blacklistedFields) ==
  \E i \in 1..Len(schema.shape) :
     oldSome(blacklistedFields, schema.shape[i].key, schema.shape[i].val) = "throw"

\* return z.object(filteredShape), over every entry of schema.shape, the
\* type field among them.
oldApplyFilter(schema, blacklistedFields) ==
  ZObject(oldReduceShape(schema.shape, blacklistedFields, << >>))

\* this._schemas[schema.shape.type] = schema : the property key is the string
\* form of the type field, "[object Object]" for a zod type and "undefined"
\* for a shape that has no type.
oldAdd(repo, schema) ==
  ObjSet(repo,
         IF ShapeGet(schema, "type") = Missing THEN "undefined" ELSE "[object Object]",
         schema)

\* Object.values(this._schemas).slice()
oldSchemas(repo) == ObjValues(repo)

\* return this._schemas[name] : an own property, else an inherited one, else
\* undefined.
oldFactory(repo, name) ==
  IF ObjHas(repo, name) THEN ObjGet(repo, name)
  ELSE IF name \in ObjectPrototypeKeys THEN PrototypeMember(name)
  ELSE Undefined

\* The check reads schema.shape.type._def when schema.shape.type is
\* undefined, which raises a TypeError, and passes every shape that has a
\* type field.
oldRegister(schema, localBlacklist, ignoreLLM) ==
  LET call == [NoCall EXCEPT !.op = "register", !.schema = schema,
                             !.localBlacklist = localBlacklist,
                             !.ignoreLLM = ignoreLLM, !.after = schema]
      blacklist == globalBlacklist \o localBlacklist
  IN
  /\ UNCHANGED globalBlacklist
  /\ IF ShapeGet(schema, "type") = Missing
       THEN /\ last' = [call EXCEPT !.result = "TypeError"]
            /\ UNCHANGED <<original, llm>>
     ELSE IF ignoreLLM
       THEN /\ original' = oldAdd(original, schema)
            /\ last' = [call EXCEPT !.result = "ok"]
            /\ UNCHANGED llm
     ELSE IF oldApplyFilterThrows(schema, blacklist)
       THEN /\ original' = oldAdd(original, schema)
            /\ last' = [call EXCEPT !.result = "FilterError"]
            /\ UNCHANGED llm
     ELSE /\ original' = oldAdd(original, schema)
          /\ llm' = oldAdd(llm, oldApplyFilter(schema, blacklist))
          /\ last' = [call EXCEPT !.result = "ok"]

OldSchemas == {UserSchema, UserSchemaV2, PostSchema, Schema(Missing, IdOnly)}
OldGlobalBlacklists == {<< >>, <<Fn("isOptional")>>}
OldLocalBlacklists ==
  {<< >>, <<Str("age")>>, <<Fn("isString"), Fn("always")>>, <<Fn("shapeHasEmail")>>}

\* The calls that returned successfully, in their order.
ObserveCalls ==
  order' = IF last'.result = "ok"
             THEN Append(order, [type |-> ShapeGet(last'.schema, "type").value.str,
                                 ignoreLLM |-> last'.ignoreLLM])
             ELSE order

InitOld ==
  /\ globalBlacklist \in OldGlobalBlacklists
  /\ original = << >>
  /\ llm = << >>
  /\ last = NoCall
  /\ insufficient = {}
  /\ firstUnion = [r \in RepoNames |-> << >>]
  /\ order = << >>
  /\ arrays = << >>
  /\ constructed = [given |-> globalBlacklist # << >>, list |-> globalBlacklist]
  /\ other = [globalBlacklist |-> << >>, original |-> << >>, llm |-> << >>]
  /\ running = Idle
  /\ invoked = << >>

NextOld ==
  /\ Len(order) < MaxCalls
  /\ \E schema \in OldSchemas, localBlacklist \in OldLocalBlacklists,
         ignoreLLM \in BOOLEAN : oldRegister(schema, localBlacklist, ignoreLLM)
  /\ ObserveCalls
  /\ UNCHANGED <<insufficient, firstUnion, arrays, constructed, other, running, invoked>>

SpecOld == InitOld /\ [][NextOld]_vars

\* register seen by an observer that keeps the distinct discriminator values
\* of the calls that returned successfully.
ObserveValues ==
  LET value == ShapeGet(last'.schema, "type").value IN
  order' = IF last'.result = "ok" /\ \A i \in 1..Len(order) : order[i] # value
             THEN Append(order, value)
             ELSE order

NextValues ==
  /\ \E schema \in ValidSchemas, localBlacklist \in {<< >>, <<"throws">>},
         ignoreLLM \in BOOLEAN : register(schema, localBlacklist, ignoreLLM)
  /\ ObserveValues
  /\ UNCHANGED <<insufficient, firstUnion, arrays, constructed, other, running, invoked>>

SpecValues == Init /\ [][NextValues]_vars

\* One register call on a new registry, step by step, over the schemas of
\* the pipeline.
NextCall ==
  \/ /\ last = NoCall
     /\ \E schema \in ChainSchemas, localBlacklist \in StepBlacklists,
            ignoreLLM \in BOOLEAN : registerBegin(schema, localBlacklist, ignoreLLM)
     /\ UNCHANGED <<insufficient, firstUnion, order, arrays, constructed, other>>
  \/ /\ invokePredicate
     /\ UNCHANGED <<insufficient, firstUnion, order, arrays, constructed, other>>
  \/ /\ registerEnd
     /\ UNCHANGED <<insufficient, firstUnion, order, arrays, constructed, other>>

SpecCall == Init /\ [][NextCall]_vars

\* The registry used through RegistryType, the type createRegistry returns.

\* registry.unregister(name): class Registry has no member unregister, the
\* property read gives undefined and the call raises a TypeError.
unregister(name) ==
  /\ last' = [NoCall EXCEPT !.op = "unregister", !.name = name,
                            !.result = "TypeError"]
  /\ UNCHANGED <<globalBlacklist, original, llm>>

NextDeclared ==
  \/ /\ \E schema \in ValidSchemas, ignoreLLM \in BOOLEAN :
           register(schema, << >>, ignoreLLM)
     /\ UNCHANGED observers
  \/ /\ \E name \in TagNames \cup {"post"} : unregister(name)
     /\ UNCHANGED observers
  \/ /\ \E r \in RepoNames, name \in TagNames \cup {"post"} : readFactory(r, name)
     /\ UNCHANGED observers

SpecDeclared == Init /\ [][NextDeclared]_vars

\* Two registries made by two createRegistry calls: the one of the variables
\* globalBlacklist, original and llm (registry 1) and other (registry 2).

\* The #schemas object of a repository of all registries alike, as a static
\* member would be.
storeShared(registry, r) == <<1, r>>

\* The #schemas object of repository r of a registry: each constructor call
\* makes two SchemaRepo objects, each with a #schemas object of its own.
storeOf(registry, r) == <<registry, r>>

\* The contents of a #schemas object.
StoreGet(store) ==
  IF store[1] = 1 THEN Repo(store[2])
  ELSE IF store[2] = "original" THEN other.original ELSE other.llm

\* What register does to a registry whose #schemas objects hold o and l, and
\* how it ends.
registerOn(global, o, l, schema, localBlacklist, ignoreLLM) ==
  LET blacklist == global \o localBlacklist IN
  IF MissingDiscriminator(schema)
    THEN [original |-> o, llm |-> l, result |-> "MissingDiscriminator"]
  ELSE IF addThrows(schema)
    THEN [original |-> o, llm |-> l, result |-> "AddError"]
  ELSE IF ~writesLLM(ignoreLLM)
    THEN [original |-> add(o, schema), llm |-> l, result |-> "ok"]
  ELSE IF applyFilterThrows(schema, blacklist)
    THEN [original |-> add(o, schema), llm |-> l, result |-> "FilterError"]
  ELSE IF addThrows(applyFilter(schema, blacklist))
    THEN [original |-> add(o, schema), llm |-> l, result |-> "AddError"]
  ELSE [original |-> add(o, schema),
        llm |-> add(l, applyFilter(schema, blacklist)), result |-> "ok"]

\* register on registry 2.
registerOther(schema, localBlacklist, ignoreLLM) ==
  LET so == storeOf(2, "original")
      sl == storeOf(2, "llm")
      res == registerOn(other.globalBlacklist, StoreGet(so), StoreGet(sl),
                        schema, localBlacklist, ignoreLLM)
      Written(store, old) ==
        IF so = store THEN res.original ELSE IF sl = store THEN res.llm ELSE old
  IN /\ original' = Written(<<1, "original">>, original)
     /\ llm' = Written(<<1, "llm">>, llm)
     /\ other' = [other EXCEPT !.original = Written(<<2, "original">>, @),
                               !.llm = Written(<<2, "llm">>, @)]
     /\ last' = [NoCall EXCEPT !.op = "registerOther", !.schema = schema,
                               !.localBlacklist = localBlacklist,
                               !.ignoreLLM = ignoreLLM, !.after = schema,
                               !.result = res.result]
     /\ UNCHANGED globalBlacklist

InitTwo ==
  /\ globalBlacklist \in GlobalBlacklists
  /\ other \in {[globalBlacklist |-> g, original |-> << >>, llm |-> << >>] :
                  g \in GlobalBlacklists}
  /\ constructed = [given |-> globalBlacklist # << >>, list |-> globalBlacklist]
  /\ original = << >>
  /\ llm = << >>
  /\ last = NoCall
  /\ insufficient = {}
  /\ firstUnion = [r \in RepoNames |-> << >>]
  /\ order = << >>
  /\ arrays = << >>
  /\ running = Idle
  /\ invoked = << >>

NextTwo ==
  \/ /\ \E schema \in {UserSchema, PostSchema}, ignoreLLM \in BOOLEAN :
           register(schema, << >>, ignoreLLM)
     /\ UNCHANGED observers
  \/ /\ \E schema \in {UserSchema, PostSchema}, ignoreLLM \in BOOLEAN :
           registerOther(schema, << >>, ignoreLLM)
     /\ UNCHANGED <<insufficient, firstUnion, order, arrays, constructed,
                    running, invoked>>

SpecTwo == InitTwo /\ [][NextTwo]_vars

\* The filter pipeline on its own: one register call on a new registry, over
\* the schemas and the filter lists of the pipeline.
InitPipeline ==
  /\ globalBlacklist \in PipelineGlobals
  /\ original = << >>
  /\ llm = << >>
  /\ last = NoCall
  /\ insufficient = {}
  /\ firstUnion = [r \in RepoNames |-> << >>]
  /\ order = << >>
  /\ arrays = << >>
  /\ constructed = [given |-> globalBlacklist # << >>, list |-> globalBlacklist]
  /\ other = [globalBlacklist |-> << >>, original |-> << >>, llm |-> << >>]
  /\ running = Idle
  /\ invoked = << >>

NextPipeline ==
  /\ last = NoCall
  /\ \E schema \in ChainSchemas, localBlacklist \in PipelineLocals :
       register(schema, localBlacklist, FALSE)
  /\ UNCHANGED observers

SpecPipeline == InitPipeline /\ [][NextPipeline]_vars

----------------------------------------------------------------------------
(* Properties                                                              *)

Count(repo, k) == Cardinality({i \in 1..Len(repo) : repo[i].key = k})

Registered(c) == c.op = "register" /\ c.result = "ok"

\* The derived schema a register call hands to the llm repository.
Derived(c) == applyFilter(c.schema, globalBlacklist \o c.localBlacklist)

\* C1: after a successful register made without ignoreLLM, factory(tag)
\* returns a schema on the original and on the llm repository.
C1_DualWrite ==
  (Registered(last) /\ ~last.ignoreLLM) =>
     /\ factory(original, Tag(last.schema)) # Null
     /\ factory(llm, Tag(last.schema)) # Null

C1_Witness ==
  /\ Registered(last) /\ ~last.ignoreLLM
  /\ Len(original) >= 2
  /\ factory(llm, Tag(last.schema)) = Derived(last)

\* C2 as stated, for a call that follows a successful register made with
\* ignoreLLM: after a successful register made without ignoreLLM the two
\* repositories have the same number of schemas.
C2_EqualLengths ==
  [][(Registered(last) /\ last.ignoreLLM /\ Registered(last') /\ ~last'.ignoreLLM)
        => Len(schemas(original')) = Len(schemas(llm'))]_vars

\* C2 amended: the llm repository never holds more schemas than the original
\* one, and a successful register made without ignoreLLM leaves the two
\* lengths equal when they were equal before the call.
C2_LengthsStayEqual ==
  /\ [](Len(schemas(llm)) <= Len(schemas(original)))
  /\ [][(Registered(last') /\ ~last'.ignoreLLM
           /\ Len(schemas(original)) = Len(schemas(llm)))
          => Len(schemas(original')) = Len(schemas(llm'))]_vars

C2_Witness ==
  /\ Registered(last) /\ ~last.ignoreLLM
  /\ Len(schemas(original)) = 3
  /\ Len(schemas(llm)) = 3

\* C3 as stated: after a successful register with ignoreLLM, factory(tag) is
\* absent on the llm repository and defined on the original one.
C3_LLMAbsent ==
  (Registered(last) /\ last.ignoreLLM) =>
     /\ factory(llm, Tag(last.schema)) = Null
     /\ factory(original, Tag(last.schema)) # Null

\* C3 amended: a successful register with ignoreLLM leaves the llm repository
\* as it was (factory(tag) is absent there exactly when it was absent before
\* the call) and factory(tag) is defined on the original repository.
C3_LLMUntouched ==
  [][(Registered(last') /\ last'.ignoreLLM) =>
        /\ llm' = llm
        /\ factory(original', Tag(last'.schema)) = last'.schema]_vars

C3_Witness ==
  /\ Registered(last) /\ last.ignoreLLM
  /\ factory(llm, Tag(last.schema)) = Null
  /\ Len(llm) >= 1

\* Two successful register calls in a row with the same discriminator value.
SameTagTwice ==
  /\ Registered(last) /\ Registered(last')
  /\ Tag(last.schema) = Tag(last'.schema)

C5_MissingDiscriminatorWritesNothing ==
  [][(last'.op = "register" /\ last'.result = "MissingDiscriminator")
        => (original' = original /\ llm' = llm)]_vars

C5_Witness ==
  /\ last.op = "register" /\ last.result = "MissingDiscriminator"
  /\ Len(original) >= 1
  /\ Len(llm) >= 1

\* C6: every register call that raises, whatever the error, leaves both
\* repositories as they were.
C6_NoPartialWrite ==
  [][(last'.op = "register" /\ last'.result # "ok")
        => (original' = original /\ llm' = llm)]_vars

\* The schemas C7 says are rejected: no type field, a type field that is not
\* a literal, or a literal whose value is undefined or the empty string.
TypeRejected(schema) ==
  LET type == ShapeGet(schema, "type")
  IN \/ type = Missing
     \/ type.typeName # "ZodLiteral"
     \/ type.value = Undefined
     \/ type.value = Str("")

\* The schemas C7 says are accepted: the type field is a literal with a
\* non-empty string value.
TypeAccepted(schema) ==
  LET type == ShapeGet(schema, "type")
  IN /\ type # Missing
     /\ type.typeName = "ZodLiteral"
     /\ type.value.jstype = "string"
     /\ type.value.str # ""

\* C7: register fails with MissingDiscriminator for every schema whose type
\* field is missing, not a literal, or a literal with an undefined or empty
\* value; a schema whose type is a literal with a non-empty string value
\* passes the check and is registered (the call ends otherwise only when a
\* filter predicate raises).
C7_DiscriminatorCheck ==
  last.op = "register" =>
     /\ TypeRejected(last.schema) => last.result = "MissingDiscriminator"
     /\ TypeAccepted(last.schema) =>
          last.result =
            IF ~last.ignoreLLM /\ applyFilterThrows(last.schema,
                                     globalBlacklist \o last.localBlacklist)
              THEN "FilterError" ELSE "ok"

C7_Witness ==
  /\ last.op = "register"
  /\ ShapeGet(last.schema, "type") = ZOptional(ZLiteral(Str("user")))
  /\ last.result = "MissingDiscriminator"

\* C8 as stated: a schema whose type literal is not a non-empty string is not
\* inserted, and every key of either repository is a non-empty string equal
\* to the type literal's value of the schema stored under it.
C8_KeysEqualLiteralValue ==
  /\ (last.op = "register" /\ ~TypeAccepted(last.schema)) => last.result # "ok"
  /\ \A r \in RepoNames : \A i \in 1..Len(Repo(r)) :
        /\ Repo(r)[i].key # ""
        /\ StrictEqualsKey(Repo(r)[i].key, ShapeGet(Repo(r)[i].val, "type").value)

\* C8 amended: a schema whose type literal is falsy (undefined, "", 0) is not
\* inserted, while a truthy literal that is not a string (7) is; every key of
\* either repository is a non-empty string equal to the string form of the
\* type literal's value of the schema stored under it, which is the value
\* itself when the value is a string.
C8_KeysAreLiteralKeys ==
  /\ (last.op = "register" /\ ShapeGet(last.schema, "type") # Missing
        /\ ShapeGet(last.schema, "type").typeName = "ZodLiteral"
        /\ ~Truthy(ShapeGet(last.schema, "type").value)) => last.result # "ok"
  /\ \A r \in RepoNames : \A i \in 1..Len(Repo(r)) :
        LET type == ShapeGet(Repo(r)[i].val, "type")
        IN /\ Repo(r)[i].key # ""
           /\ type # Missing
           /\ type.typeName = "ZodLiteral"
           /\ Repo(r)[i].key = ToPropertyKey(type.value)
           /\ type.value.jstype = "string" =>
                 StrictEqualsKey(Repo(r)[i].key, type.value)

C8_Witness ==
  /\ factory(original, "7") = SevenSchema
  /\ factory(llm, "7") # Null
  /\ factory(llm, "user") # Null

IsRead(c) == c.op \in {"union", "enum"}

\* C9: a union or enum read on a repository that holds 0 or 1 entries fails
\* with InsufficientSchemas, and succeeds on one that holds exactly 2.
C9_MinimumArity ==
  IsRead(last) =>
     /\ Len(Repo(last.repo)) <= 1 => last.result = "InsufficientSchemas"
     /\ Len(Repo(last.repo)) = 2 => last.result = "ok"

C9_Witness ==
  /\ last.op = "enum" /\ last.repo = "llm"
  /\ Len(llm) = 2
  /\ last.result = "ok"

\* C10: a union or enum read that failed on a repository succeeds once the
\* repository holds at least 2 entries, and a failed read changes no state.
C10_NotSticky ==
  /\ []((IsRead(last) /\ last.repo \in insufficient
           /\ Len(Repo(last.repo)) >= 2) => last.result = "ok")
  /\ [][(IsRead(last') /\ last'.result = "InsufficientSchemas")
          => UNCHANGED <<original, llm, globalBlacklist>>]_vars

C10_Witness ==
  /\ last.op = "union" /\ last.repo = "llm"
  /\ "llm" \in insufficient
  /\ last.result = "ok"

\* The options of a union as they are after the stored schemas changed.
UnionRebuilt ==
  /\ last.op = "union" /\ last.result = "ok"
  /\ firstUnion[last.repo] # << >>
  /\ last.value # firstUnion[last.repo]

\* C11: union is not cached.  Whenever a read of union succeeds, its variants
\* are exactly the schemas stored in the repository at that moment, whatever
\* an earlier read returned: data is accepted by the union iff its
\* discriminator is the key of a stored schema and that schema accepts it.
C11_UnionIsCurrent ==
  (last.op = "union" /\ last.result = "ok") =>
     /\ last.value = schemas(Repo(last.repo))
     /\ \A data \in Data :
          LET tag == ToPropertyKey(DataGet(data, "type"))
          IN parseUnion(last.value, data) <=>
               /\ factory(Repo(last.repo), tag) # Null
               /\ parseObject(factory(Repo(last.repo), tag), data)

\* A union read after an earlier one returned other variants, one of which
\* accepts data that the earlier union rejected or the other way round.
C11_Witness ==
  /\ UnionRebuilt
  /\ \E data \in Data :
       parseUnion(last.value, data) # parseUnion(firstUnion[last.repo], data)

\* The integer-like strings of a sequence in ascending numeric order.
RECURSIVE IndexKeysFrom(_, _)
IndexKeysFrom(seq, n) ==
  IF n > MaxIndex THEN << >>
  ELSE (IF \E i \in 1..Len(seq) : seq[i] = NumToStr(n)
          THEN <<NumToStr(n)>> ELSE << >>) \o IndexKeysFrom(seq, n + 1)

IsPlainKey(k) == ~IsArrayIndex(k)

\* Own-key order: integer-like keys ascending, then the others as they came.
KeyOrder(seq) == IndexKeysFrom(seq, 0) \o SelectSeq(seq, IsPlainKey)

EnumStrings == {"user", "post", "1", "2", "7", "order", ""}

EnumRead == last.op = "enum" /\ last.result = "ok"

\* C12 as stated: after registrations with pairwise distinct discriminators,
\* enum.options is the sequence of the discriminator strings in the order of
\* their registration, and enum accepts exactly those strings.
C12_EnumInRegistrationOrder ==
  EnumRead =>
     /\ last.value = order
     /\ \A str \in EnumStrings :
          parseEnum(last.value, Str(str)) <=> \E i \in 1..Len(order) : order[i] = str

\* C12, amended: after registrations with pairwise distinct discriminators,
\* enum.options holds exactly the discriminator strings, those that are
\* canonical array indices first in ascending numeric order and then the
\* others in the order of their registration; enum accepts exactly those
\* strings.
C12_EnumInKeyOrder ==
  EnumRead =>
     /\ last.value = KeyOrder(order)
     /\ \A str \in EnumStrings :
          parseEnum(last.value, Str(str)) <=> \E i \in 1..Len(order) : order[i] = str

\* An enum read after a digit-string discriminator was registered later than
\* another discriminator that enum lists after it.
C12_Witness ==
  /\ EnumRead
  /\ last.value # order
  /\ Len(order) >= 3

\* C13: every read of schemas returns a new array holding the stored schemas:
\* two successive reads of a repository return equal contents in distinct
\* arrays, and a pop or push on a returned array changes no other returned
\* array and neither repository, so later reads of schemas, factory, union
\* and enum return what the repository holds.
C13_SnapshotIsolation ==
  [][ /\ last'.op = "schemas" =>
           /\ last'.ref \notin 1..Len(arrays)
           /\ last'.value = schemas(Repo(last'.repo))
           /\ \A i \in 1..Len(arrays) : arrays'[i] = arrays[i]
      /\ (last.op = "schemas" /\ last'.op = "schemas" /\ last'.repo = last.repo) =>
           /\ last'.ref # last.ref
           /\ last'.value = last.value
      /\ last'.op \in {"pop", "push"} =>
           /\ \A i \in 1..Len(arrays) : i # last'.ref => arrays'[i] = arrays[i]
           /\ original' = original /\ llm' = llm
      /\ last'.op = "factory" =>
           last'.value = <<factory(Repo(last'.repo), last'.name)>>
      /\ last'.op = "union" => last'.value = union(Repo(last'.repo)).options
      /\ last'.op = "enum" => last'.value = enum(Repo(last'.repo)).options
    ]_vars

\* A second array read from a repository after the caller pushed onto the
\* first one: the two differ and the second holds the stored schemas.
C13_Witness ==
  /\ last.op = "schemas" /\ last.ref = 2
  /\ arrays[1].repo = last.repo
  /\ Len(arrays[1].items) > Len(arrays[2].items)
  /\ arrays[2].items = schemas(Repo(last.repo))
  /\ arrays[2].items # << >>

\* C14: after a successful register(schema), whatever the filter lists, the
\* original repository holds that very schema under its discriminator, in
\* factory and in schemas, and the schema the caller passed has the fields and
\* the optional/default wrapping it had before the call.
C14_OriginalUnmodified ==
  Registered(last) =>
     /\ last.after = last.schema
     /\ factory(original, Tag(last.schema)) = last.schema
     /\ \E i \in 1..Len(schemas(original)) : schemas(original)[i] = last.schema

\* A successful register whose llm derivative lost a field or a wrapper of
\* the schema that the original repository holds.
C14_Witness ==
  /\ Registered(last) /\ ~last.ignoreLLM
  /\ factory(llm, Tag(last.schema)) # last.schema
  /\ Len(factory(llm, Tag(last.schema)).shape) < Len(last.schema.shape)
  /\ factory(original, Tag(last.schema)) = last.after

\* C15 as stated: factory(tag) returns null for every tag string that has no
\* entry in the repository, and the stored schema for every tag that has one.
C15_FactoryNullWhenUnregistered ==
  last.op = "factory" =>
     IF ObjHas(Repo(last.repo), last.name)
       THEN last.value = <<ObjGet(Repo(last.repo), last.name)>>
       ELSE last.value = <<Null>>

KeySet(shape) == {shape[i].key : i \in 1..Len(shape)}

\* The predicates a register call concatenates, and the schemas it stored.
Blacklist(c) == globalBlacklist \o c.localBlacklist
StoredLLM(c) == factory(llm, Tag(c.schema))
StoredOriginal(c) == factory(original, Tag(c.schema))

Flagged(blacklist, e) ==
  \E j \in 1..Len(blacklist) : CallFilter(blacklist[j], e.key, e.val) = "true"

\* C16: after a successful register made without ignoreLLM, the fields of the
\* schema stored in llm are the discriminator and those other fields of the
\* input for which no predicate of globalBlacklist \o localBlacklist returns
\* true; the schema stored in original has every field of the input.
C16_FieldSet ==
  (Registered(last) /\ ~last.ignoreLLM) =>
     LET in == last.schema.shape IN
     /\ KeySet(StoredLLM(last).shape)
          = {"type"} \cup {in[i].key : i \in {j \in 1..Len(in) :
                                in[j].key # "type"
                                /\ ~Flagged(Blacklist(last), in[j])}}
     /\ KeySet(StoredOriginal(last).shape) = KeySet(in)

\* A register with two predicates or more that removed one field, flagged
\* by one predicate only, and kept another.
C16_Witness ==
  /\ Registered(last) /\ ~last.ignoreLLM
  /\ Len(Blacklist(last)) >= 2
  /\ \E i \in 1..Len(last.schema.shape) :
       LET e == last.schema.shape[i] IN
       /\ e.key \notin KeySet(StoredLLM(last).shape)
       /\ Cardinality({j \in 1..Len(Blacklist(last)) :
             CallFilter(Blacklist(last)[j], e.key, e.val) = "true"}) = 1
  /\ "id" \in KeySet(StoredLLM(last).shape)

\* The sequences that hold the elements of seq in another order.
RECURSIVE Reorderings(_)
Reorderings(seq) ==
  IF seq = << >> THEN {<< >>}
  ELSE UNION {{<<seq[i]>> \o p :
                 p \in Reorderings(SubSeq(seq, 1, i - 1)
                                      \o SubSeq(seq, i + 1, Len(seq)))} :
              i \in 1..Len(seq)}

\* C17: after a successful register made without ignoreLLM with predicates
\* that do not raise, the fields of the schema stored in llm are those the
\* pipeline keeps under every permutation of globalBlacklist \o localBlacklist,
\* hence under every split of a permutation into a global and a local list.
C17_OrderIndependent ==
  (Registered(last) /\ ~last.ignoreLLM) =>
     \A blacklist \in Reorderings(Blacklist(last)) :
        /\ ~applyFilterThrows(last.schema, blacklist)
        /\ KeySet(applyFilter(last.schema, blacklist).shape)
             = KeySet(StoredLLM(last).shape)

\* A register whose predicates differ, one of them global, where the first
\* one keeps a field that a later one removes.
C17_Witness ==
  /\ Registered(last) /\ ~last.ignoreLLM
  /\ globalBlacklist # << >> /\ Len(last.localBlacklist) >= 2
  /\ \E i \in 1..Len(last.schema.shape) :
       LET e == last.schema.shape[i] IN
       /\ e.key \notin KeySet(StoredLLM(last).shape)
       /\ CallFilter(Blacklist(last)[1], e.key, e.val) = "false"
  /\ "id" \in KeySet(StoredLLM(last).shape)

\* A register call made without ignoreLLM, with a schema that has a
\* discriminator and with predicates that raise for no field but type.
PipelineCall(c) ==
  /\ c.op = "register"
  /\ ~c.ignoreLLM
  /\ ~MissingDiscriminator(c.schema)
  /\ \A j \in 1..Len(Blacklist(c)) : Blacklist(c)[j] # "throws"

\* C18: a register of a schema with a discriminator, made without ignoreLLM
\* with any predicates, among them predicates that return true or raise for
\* the key type and a predicate that returns true for every field, succeeds
\* and stores in llm a schema whose type field is the literal of the input:
\* no predicate is shown the type field and nothing unwraps it.
C18_DiscriminatorPreserved ==
  PipelineCall(last) =>
     /\ last.result = "ok"
     /\ ShapeGet(StoredLLM(last), "type") = ShapeGet(last.schema, "type")
     /\ ShapeGet(StoredLLM(last), "type").typeName = "ZodLiteral"
     /\ ShapeGet(StoredLLM(last), "type").value
          = ShapeGet(StoredOriginal(last), "type").value

\* A register with a predicate that returns true for type, one that raises
\* for type and one that returns true for every field.
C18_Witness ==
  /\ Registered(last) /\ ~last.ignoreLLM
  /\ {"keyIsType", "throwsOnType", "always"}
       \subseteq {Blacklist(last)[j] : j \in 1..Len(Blacklist(last))}
  /\ ShapeGet(StoredLLM(last), "type") = ZLiteral(Str("user"))

\* Every field but the discriminator is flagged by a predicate.
AllExcluded(c) ==
  \A i \in 1..Len(c.schema.shape) :
     c.schema.shape[i].key # "type" => Flagged(Blacklist(c), c.schema.shape[i])

\* C19: a register made without ignoreLLM whose predicates return true for
\* every field but the discriminator succeeds, and the schema stored in llm
\* has exactly one field, the discriminator.
C19_OnlyDiscriminatorLeft ==
  (PipelineCall(last) /\ AllExcluded(last)) =>
     /\ last.result = "ok"
     /\ ObjKeys(StoredLLM(last).shape) = <<"type">>
     /\ ShapeGet(StoredLLM(last), "type") = ShapeGet(last.schema, "type")

\* A register of a schema with two more fields, all excluded, by a global
\* predicate in one registry and by local ones in another.
C19_Witness ==
  /\ Registered(last) /\ ~last.ignoreLLM
  /\ AllExcluded(last)
  /\ Len(last.schema.shape) >= 3
  /\ ObjKeys(StoredLLM(last).shape) = <<"type">>
  /\ \/ globalBlacklist = <<"always">> /\ last.localBlacklist = << >>
     \/ globalBlacklist = << >> /\ last.localBlacklist = <<"keyIsAge", "always">>

\* The type under every optional and default wrapper.
RECURSIVE Innermost(_)
Innermost(t) ==
  IF t.typeName \in {"ZodOptional", "ZodDefault"} THEN Innermost(t.innerType) ELSE t

\* The data of a schema's discriminator and id, without the other fields.
WithoutAge(schema) ==
  <<Field("type", ShapeGet(schema, "type").value), Field("id", Str("a"))>>

\* C20: after a successful register made without ignoreLLM, every field of
\* the schema stored in llm other than the discriminator is the innermost
\* type of the input's field, under no optional or default wrapper, whatever
\* the chain of wrappers was; a wrapped field that the original schema lets
\* data omit is required by the llm schema.
C20_WrappersRemoved ==
  (Registered(last) /\ ~last.ignoreLLM) =>
     /\ \A i \in 1..Len(StoredLLM(last).shape) :
          LET e == StoredLLM(last).shape[i] IN
          e.key # "type" =>
            /\ e.val.typeName \notin {"ZodOptional", "ZodDefault"}
            /\ e.val = Innermost(ShapeGet(last.schema, e.key))
            /\ ~parseType(e.val, Undefined)
     /\ ("age" \in KeySet(StoredLLM(last).shape)
            /\ ShapeGet(last.schema, "age") # Innermost(ShapeGet(last.schema, "age"))) =>
          /\ parseObject(StoredOriginal(last), WithoutAge(last.schema))
          /\ ~parseObject(StoredLLM(last), WithoutAge(last.schema))

\* A register that kept a field wrapped optional -> default -> optional.
C20_Witness ==
  /\ Registered(last) /\ ~last.ignoreLLM
  /\ ShapeGet(last.schema, "age") = ZOptional(ZDefault(ZOptional(ZNumber)))
  /\ ShapeGet(StoredLLM(last), "age") = ZNumber
  /\ parseObject(StoredOriginal(last), WithoutAge(last.schema))
  /\ ~parseObject(StoredLLM(last), WithoutAge(last.schema))

\* An optional or default wrapper somewhere in a type: the type itself, the
\* type it wraps, or a field of an object type.
RECURSIVE HasWrapper(_)
HasWrapper(t) ==
  \/ t.typeName \in {"ZodOptional", "ZodDefault"}
  \/ /\ t.typeName = "ZodObject"
     /\ \E i \in 1..Len(t.shape) : HasWrapper(t.shape[i].val)

\* C21 as stated: after a successful register made without ignoreLLM, the
\* schema stored in llm has no optional or default wrapper at any nesting
\* depth, the fields of a nested object schema included.
C21_NoWrapperAtAnyDepth ==
  (Registered(last) /\ ~last.ignoreLLM) => ~HasWrapper(StoredLLM(last))

\* C22: the stripping step is idempotent.  For every field f of a schema
\* given to register, stripping the stripped f gives the stripped f, and
\* stripping f gives f when f is under no optional or default wrapper; the
\* fields stored in llm are left as they are by another stripping.
C22_StripIdempotent ==
  Registered(last) =>
     /\ \A i \in 1..Len(last.schema.shape) :
          LET f == last.schema.shape[i].val IN
          /\ removeDefaultsAndOptionals(removeDefaultsAndOptionals(f))
               = removeDefaultsAndOptionals(f)
          /\ f.typeName \notin {"ZodOptional", "ZodDefault"} =>
               removeDefaultsAndOptionals(f) = f
     /\ \A i \in 1..Len(StoredLLM(last).shape) :
          removeDefaultsAndOptionals(StoredLLM(last).shape[i].val)
            = StoredLLM(last).shape[i].val

\* A register of a schema with an unwrapped field and a field under three
\* wrappers, both kept.
C22_Witness ==
  /\ Registered(last)
  /\ ShapeGet(last.schema, "age") = ZDefault(ZOptional(ZDefault(ZNumber)))
  /\ ShapeGet(StoredLLM(last), "age") = ZNumber
  /\ ShapeGet(StoredLLM(last), "id") = ShapeGet(last.schema, "id")

\* C23 as stated: the global filters of every register call are those that
\* options.globalBlacklist held when the registry was constructed, in that
\* order, whatever the caller did to that sequence since.
C23_GlobalFixedAtConstruction ==
  (Registered(last) /\ ~last.ignoreLLM) =>
     StoredLLM(last) = applyFilter(last.schema, constructed.list \o last.localBlacklist)

\* C24: local filters are ephemeral.  A register call leaves the registry's
\* global filter list as it was; when it succeeds without ignoreLLM, the llm
\* entry it writes is the schema filtered by the global filters and the
\* call's own local filters, whatever local filters earlier calls were given,
\* and every other llm entry is as it was.
C24_LocalFiltersEphemeral ==
  [][ last'.op = "register" =>
        /\ globalBlacklist' = globalBlacklist
        /\ (Registered(last') /\ ~last'.ignoreLLM) =>
             /\ ObjGet(llm', Tag(last'.schema))
                  = applyFilter(last'.schema, globalBlacklist \o last'.localBlacklist)
             /\ \A i \in 1..Len(llm) :
                  llm[i].key # Tag(last'.schema) =>
                    /\ ObjHas(llm', llm[i].key)
                    /\ ObjGet(llm', llm[i].key) = llm[i].val
    ]_vars

\* A register without local filters that kept every field, in a registry
\* without global filters where an earlier call's local filter removed a
\* field of another schema.
C24_Witness ==
  /\ globalBlacklist = << >>
  /\ Registered(last) /\ ~last.ignoreLLM /\ last.localBlacklist = << >>
  /\ last.schema = PostSchema
  /\ KeySet(StoredLLM(last).shape) = KeySet(last.schema.shape)
  /\ ObjHas(llm, "user")
  /\ "age" \notin KeySet(ObjGet(llm, "user").shape)
  /\ "id" \in KeySet(ObjGet(llm, "user").shape)

\* What the reads of a registry return: schemas, union, enum and factory on
\* each of its two repositories.
ReadsOf(registry) ==
  [r \in RepoNames |->
     LET store == StoreGet(storeOf(registry, r)) IN
     [schemas |-> schemas(store), union |-> union(store), enum |-> enum(store),
      factory |-> [name \in TagNames \cup {"post"} |-> factory(store, name)]]]

\* C25: registries are independent.  A register call on one of two
\* registries made by separate createRegistry calls changes nothing that
\* schemas, factory, union or enum return on either repository of the other.
C25_RegistriesIndependent ==
  [][ /\ last'.op = "register" => ReadsOf(2)' = ReadsOf(2)
      /\ last'.op = "registerOther" => ReadsOf(1)' = ReadsOf(1)
    ]_vars

\* After a register on the second registry, the two registries hold
\* different schemas and each union is built of its own registry's schemas.
C25_Witness ==
  /\ last.op = "registerOther" /\ last.result = "ok"
  /\ ReadsOf(1)["original"].enum.options = <<"user", "post">>
  /\ ReadsOf(2)["original"].enum.options = <<"post", "user">>
  /\ ReadsOf(1)["llm"].union.status = "InsufficientSchemas"
  /\ ReadsOf(2)["llm"].union.status = "ok"

\* C26: both repositories grow monotonically.  In every step, a tag for
\* which factory returns a schema still has factory return a schema after
\* it, and schemas.length of neither repository decreases.
C26_Monotonic ==
  [][ \A r \in RepoNames :
        /\ Len(schemas(Repo(r)')) >= Len(schemas(Repo(r)))
        /\ \A name \in TagNames \cup {"post"} :
             factory(Repo(r), name).typeName = "ZodObject"
               => factory(Repo(r)', name).typeName = "ZodObject"
    ]_vars

\* A register that replaced the schema of a tag registered before two other
\* tags: all three tags are still there.
C26_Witness ==
  /\ Registered(last) /\ last.schema = UserSchemaV2
  /\ ObjKeys(original) = <<"7", "user", "post">>
  /\ factory(original, "user") = UserSchemaV2
  /\ Len(schemas(llm)) >= 2

C28_UnregisterRemoves ==
  [][ last'.op = "unregister" =>
        IF ObjHas(original, last'.name)
          THEN /\ last'.result = "ok"
               /\ last'.value = <<ObjGet(original, last'.name)>>
               /\ ~ObjHas(original', last'.name)
               /\ ~ObjHas(llm', last'.name)
          ELSE /\ last'.result = "null"
               /\ original' = original /\ llm' = llm
    ]_vars

\* C29 as stated: register is indivisible.  No predicate invoked during a
\* register call finds the original repository holding the schema being
\* registered while the llm repository holds no entry for it.
C29_RegisterIndivisible ==
  \A n \in 1..Len(invoked) :
     ~(invoked[n].original = invoked[n].schema /\ invoked[n].llm = Null)

\* C30: during filter application the predicates are invoked, for each field
\* other than the discriminator, in the order of globalBlacklist followed by
\* localBlacklist, up to the first that returns true: an invocation other
\* than the first for a field follows the invocation of the predicate before
\* it for the same field, which returned false, so a local predicate is
\* invoked for a field only after every global one returned false for it.
C30_GlobalBeforeLocal ==
  \A n \in 1..Len(invoked) :
     LET e == invoked[n]
         bl == Blacklist(last)
     IN /\ e.key # "type"
        /\ e.index \in 1..Len(bl)
        /\ e.f = bl[e.index]
        /\ e.index > 1 =>
             /\ n > 1
             /\ invoked[n - 1].key = e.key
             /\ invoked[n - 1].index = e.index - 1
             /\ invoked[n - 1].result = "false"
        /\ (e.index = 1 /\ n > 1) =>
             /\ invoked[n - 1].key # e.key
             /\ invoked[n - 1].result = "true" \/ invoked[n - 1].index = Len(bl)
        /\ e.index > Len(globalBlacklist) =>
             \A g \in 1..Len(globalBlacklist) :
                \E m \in 1..(n - 1) :
                   /\ invoked[m].key = e.key
                   /\ invoked[m].index = g
                   /\ invoked[m].f = globalBlacklist[g]
                   /\ invoked[m].result = "false"

\* A register with two global predicates and a local one: the local one was
\* invoked for the first field after both global ones returned false, and
\* for the second field the second global one returned true and ended it.
C30_Witness ==
  /\ Registered(last) /\ running = Idle
  /\ Len(globalBlacklist) = 2 /\ Len(last.localBlacklist) >= 1
  /\ Len(invoked) = 5
  /\ invoked[3].index = 3 /\ invoked[3].key = invoked[1].key
  /\ invoked[5].index = 2 /\ invoked[5].result = "true"

\* The number of optional and default wrappers around a type.
RECURSIVE ChainLength(_)
ChainLength(t) ==
  IF t.typeName \in {"ZodOptional", "ZodDefault"} THEN 1 + ChainLength(t.innerType) ELSE 0

\* The steps a register call under way has left at most: one per predicate
\* invocation still possible, and the write to the llm repository.
Remaining ==
  IF running = Idle THEN 0
  ELSE 1 + (Len(running.entries) + 1 - running.field) * Len(running.blacklistedFields)
         - (running.predicate - 1)

\* C31: every operation terminates.  A register call under way is at a
\* predicate of its list or past its last field, every step leaves it fewer
\* steps to go, it invokes at
\* most one predicate per field and predicate of its list, and for each field
\* the stripping loop makes at most one pass per wrapper plus one.
C31_Terminates ==
  /\ [](running # Idle =>
          /\ \/ FilterDone
             \/ /\ running.field \in 1..Len(running.entries)
                /\ running.predicate \in 1..Len(running.blacklistedFields)
          /\ Remaining > 0
          /\ Len(invoked) <= Len(running.entries) * Len(running.blacklistedFields)
          /\ \A i \in 1..Len(running.entries) :
               passes(running.entries[i].val) <= ChainLength(running.entries[i].val) + 1)
  /\ [][running # Idle => Remaining' < Remaining]_vars

\* A call that returned after invoking three predicates for each of its two
\* fields, one of them under three wrappers that took four passes.
C31_Witness ==
  /\ Registered(last) /\ running = Idle /\ ~last.ignoreLLM
  /\ Len(invoked) = 6
  /\ ChainLength(ShapeGet(last.schema, "age")) = 3
  /\ passes(ShapeGet(last.schema, "age")) = 4

\* C32: in every state each key of the llm repository is a key of the
\* original repository, and a name factory finds on llm it finds on original.
C32_LLMKeysWithinOriginal ==
  /\ \A i \in 1..Len(llm) : ObjHas(original, llm[i].key)
  /\ \A name \in TagNames :
       factory(llm, name) # Null => factory(original, name) # Null

\* The llm repository holds a key, and the original repository one more.
C32_Witness ==
  /\ Len(llm) = 1
  /\ Len(original) = 2
  /\ ObjHas(original, llm[1].key)
  /\ Registered(last) /\ ~last.ignoreLLM

\* C33: a register call with ignoreLLM that returns successfully leaves the
\* llm repository as it was, keys, schemas and order alike, and has invoked
\* no predicate of the global or the local list.
C33_IgnoreLLMLeavesLLM ==
  [][(Registered(last') /\ last'.ignoreLLM) =>
        /\ llm' = llm
        /\ invoked' = << >>]_vars

\* A successful call with ignoreLLM and predicates in both lists, on a
\* registry whose llm repository holds another schema: the original
\* repository has the new schema and the llm repository has not.
C33_Witness ==
  /\ Registered(last) /\ last.ignoreLLM /\ running = Idle
  /\ globalBlacklist # << >> /\ last.localBlacklist # << >>
  /\ Len(llm) = 1
  /\ factory(original, Tag(last.schema)) = last.schema
  /\ factory(llm, Tag(last.schema)) = Null
  /\ invoked = << >>

\* The entries of a repository under keys other than key, in the order
\* schemas lists their values and enum their keys.
Others(repo, key) ==
  LET IsOther(e) == e.key # key IN SelectSeq(repo, IsOther)

\* C34: a successful register of a schema with discriminator t leaves the
\* entries under keys other than t, and their order among themselves in
\* schemas and enum, as they were, in the original and in the llm repository.
C34_OtherEntriesKept ==
  [][Registered(last') =>
        /\ Others(original', Tag(last'.schema)) = Others(original, Tag(last'.schema))
        /\ Others(llm', Tag(last'.schema)) = Others(llm, Tag(last'.schema))]_vars

\* A successful register whose key took the first place of both
\* repositories, before two entries that were there already.
C34_Witness ==
  /\ Registered(last) /\ ~last.ignoreLLM
  /\ Len(original) = 3 /\ Len(llm) = 3
  /\ original[1].key = Tag(last.schema)
  /\ llm[1].key = Tag(last.schema)
  /\ original[1].val = last.schema

\* C35: a successful register makes original.schemas one longer when the
\* discriminator was not yet a key of the original repository, and leaves its
\* length and the place of the overwritten entry as they were when it was;
\* the length of original.schemas is always the number of distinct
\* discriminator values registered successfully so far.
C35_LengthCountsRegistered ==
  /\ [][Registered(last') =>
          IF ObjHas(original, Tag(last'.schema))
            THEN /\ Len(schemas(original')) = Len(schemas(original))
                 /\ ObjPos(original', Tag(last'.schema))
                      = ObjPos(original, Tag(last'.schema))
            ELSE Len(schemas(original')) = Len(schemas(original)) + 1]_vars
  /\ [](Len(schemas(original)) = Len(order))

\* C36: in the older implementation, after "user" and then "post" are
\* registered, neither with ignoreLLM, the original and the llm repository
\* hold two entries each, and factory finds each under its own type name.
C36_OldTwoEntries ==
  order = <<[type |-> "user", ignoreLLM |-> FALSE],
            [type |-> "post", ignoreLLM |-> FALSE]>> =>
     /\ Len(oldSchemas(original)) = 2
     /\ Len(oldSchemas(llm)) = 2
     /\ \A name \in {"user", "post"} :
          /\ oldFactory(original, name) # Undefined
          /\ oldFactory(llm, name) # Undefined

\* C37: in the older implementation, the schema applyFilter derives lacks
\* every field for which some entry of the blacklist answers true and has
\* every field for which none does.
C37_OldFilterRemoves ==
  (Registered(last) /\ ~last.ignoreLLM) =>
     LET blacklist == globalBlacklist \o last.localBlacklist
         derived == oldApplyFilter(last.schema, blacklist)
     IN \A i \in 1..Len(last.schema.shape) :
          LET e == last.schema.shape[i] IN
          ObjHas(derived.shape, e.key) <=> oldSome(blacklist, e.key, e.val) # "true"

====
